---- MODULE Spec2Model ----
(***************************************************************************)
(* Model of server.js: the login endpoint, the authenticateToken guard,    *)
(* the update-profile endpoint and the route table of the express app.     *)
(* Every request is one action: the handlers touch the store at most once, *)
(* so each is linearised at its single pool.query call.                    *)
(***************************************************************************)
EXTENDS Integers, Sequences, FiniteSets, TLC

VARIABLES
    JWT_SECRET,  \* process.env.JWT_SECRET, fixed for the life of the process
    pool,        \* TRUE when `new Pool(...)` succeeded, FALSE when pool is undefined
    users,       \* the users relation: id -> row
    now,         \* the clock, in seconds
    ticks,       \* number of clock advances so far
    held,        \* tokens the client has kept from 200 login responses
    req,         \* the request served last
    res,         \* the response sent to it
    eff,         \* what serving it did: handler run after the guard, store queries
    inflight,    \* the requests being served step by step: slot -> its progress
    lastWriter   \* row id -> the slot whose UPDATE of that row ran last (0: none)

vars == <<JWT_SECRET, pool, users, now, ticks, held, req, res, eff, inflight, lastWriter>>

----------------------------------------------------------------------------
(* Bounds of the model *)

MaxTicks == 2
MaxHeld == 1
NSlots == 2

Slots == 1..NSlots

----------------------------------------------------------------------------
(* JavaScript values *)

Undefined == "<undefined>"
Num5 == "<number:5>"

\* !v for the string-like request fields (email, password)
Falsy(v) == v \in {Undefined, ""}

IsString(v) == v \notin {Undefined, Num5}

\* the name field of a JSON body: absent, a number, or a string (its characters)
NameUndefined == [type |-> "undefined"]
NameNumber == [type |-> "number", num |-> 5]
Str(s) == [type |-> "string", chars |-> s]

RECURSIVE TrimLeft(_)
TrimLeft(s) == IF s # <<>> /\ Head(s) = " " THEN TrimLeft(Tail(s)) ELSE s

RECURSIVE TrimRight(_)
TrimRight(s) ==
    IF s # <<>> /\ s[Len(s)] = " " THEN TrimRight(SubSeq(s, 1, Len(s) - 1)) ELSE s

\* a plausible slip: the name is used as sent
TrimNone(s) == s

\* String.prototype.trim
Trim(s) == TrimRight(TrimLeft(s))

----------------------------------------------------------------------------
(* The store *)

\* bcrypt.hash, as far as bcrypt.compare can tell
Hash(pw) == [alg |-> "bcrypt", of |-> pw]

Row(i, uid, mail, pw) ==
    [id |-> i, user_id |-> uid, email |-> mail, name |-> <<"a">>,
     password_hash |-> Hash(pw), created_at |-> "t0"]

\* "ua" and "b@x" each match one row; "a@x" is the email of row 1 and the user_id
\* of row 2 (no constraint in server.js keeps the two columns apart)
InitialUsers == (1 :> Row(1, "ua", "a@x", "p1")) @@ (2 :> Row(2, "a@x", "b@x", "p2"))

\* SELECT ... FROM users WHERE email = $1 OR user_id = $1
Matches(table, ident) ==
    {i \in DOMAIN table : table[i].email = ident \/ table[i].user_id = ident}

\* bcrypt.compare(data, hash): throws unless data is a string
BcryptThrows(data) == ~IsString(data)

\* a plausible slip: the comparison's result is not used
BcryptCompareAlways(data, hash) == TRUE

BcryptCompare(data, hash) == hash = Hash(data)

----------------------------------------------------------------------------
(* Tokens *)

SevenDays == 604800

NoToken == [kind |-> "none"]
Malformed == [kind |-> "malformed"]
NoUser == [kind |-> "none"]

SignKey(secret) == IF Falsy(secret) THEN "development-secret" ELSE secret

VerifyKey(secret) == IF Falsy(secret) THEN "your-secret-key" ELSE secret

\* jwt.sign(payload, key, {expiresIn: '7d'}) at time t
JwtSign(payload, key, t) ==
    [kind |-> "jwt", userId |-> payload.userId, user_id |-> payload.user_id,
     email |-> payload.email, iat |-> t, exp |-> t + SevenDays, key |-> key]

\* the payload jwt.verify decodes
Payload(token) ==
    [kind |-> "claims", userId |-> token.userId, user_id |-> token.user_id,
     email |-> token.email, iat |-> token.iat, exp |-> token.exp]

\* a plausible slip: ignoreExpiration
JwtVerifyErrNoExpiry(token, key, t) ==
    IF token.kind # "jwt" THEN "JsonWebTokenError"
    ELSE IF token.key # key THEN "JsonWebTokenError"
    ELSE "none"

\* a plausible slip: jwt.decode in place of jwt.verify, the signature is not checked
JwtVerifyErrNoSignature(token, key, t) ==
    IF token.kind # "jwt" THEN "JsonWebTokenError"
    ELSE IF t >= token.exp THEN "TokenExpiredError"
    ELSE "none"

\* jwt.verify(token, key) at time t: the error it calls back with, "none" for none.
\* A signature made with key k verifies under k and under no other key.
JwtVerifyErr(token, key, t) ==
    IF token.kind # "jwt" THEN "JsonWebTokenError"
    ELSE IF token.key # key THEN "JsonWebTokenError"
    ELSE IF t >= token.exp THEN "TokenExpiredError"
    ELSE "none"

----------------------------------------------------------------------------
(* Responses *)

Json(status, success, message, token, user) ==
    [kind |-> "json", status |-> status, success |-> success, message |-> message,
     token |-> token, user |-> user]

\* res.sendFile(path.join(__dirname, file))
File(file) ==
    [kind |-> "file", status |-> 200, success |-> TRUE, message |-> file,
     token |-> NoToken, user |-> NoUser]

NoRes == [kind |-> "none"]
NoReq == [route |-> "none"]
NoEff == [handlerRan |-> FALSE, queries |-> 0, threw |-> "none"]

Eff(ran, queries, threw) == [handlerRan |-> ran, queries |-> queries, threw |-> threw]

----------------------------------------------------------------------------
(* authenticateToken *)

\* the pieces of an Authorization header value, as split(' ') yields them
Bearer == [kind |-> "word"]
EmptyPart == [kind |-> "empty"]

NoHeader == [present |-> FALSE]
Header(parts) == [present |-> TRUE, parts |-> parts]

\* authHeader && authHeader.split(' ')[1]
ExtractToken(h) ==
    IF ~h.present THEN NoToken
    ELSE IF Len(h.parts) < 2 THEN NoToken
    ELSE h.parts[2]

\* !token
TokenFalsy(token) == token.kind \in {"none", "empty"}

\* a plausible slip: the 403 body carries the verifier's error
ForbiddenByCause(err) == Json(403, FALSE, err, NoToken, NoUser)

\* res.status(403).json(...) in the jwt.verify callback
Forbidden(err) == Json(403, FALSE, "Invalid or expired token", NoToken, NoUser)

\* a plausible variant: the guard also looks the token's user up in the store
AuthenticateTokenWithLookup(h, secret, t) ==
    LET token == ExtractToken(h)
        err == JwtVerifyErr(token, VerifyKey(secret), t)
    IN
    IF TokenFalsy(token)
    THEN [next |-> FALSE, user |-> NoUser,
          res |-> Json(401, FALSE, "Access token required", NoToken, NoUser)]
    ELSE IF err # "none" \/ token.userId \notin DOMAIN users
    THEN [next |-> FALSE, user |-> NoUser, res |-> Forbidden(err)]
    ELSE [next |-> TRUE, user |-> Payload(token), res |-> NoRes]

\* next |-> TRUE when the guard called next(); otherwise res is the response it sent
AuthenticateToken(h, secret, t) ==
    LET token == ExtractToken(h)
        err == JwtVerifyErr(token, VerifyKey(secret), t)
    IN
    IF TokenFalsy(token)
    THEN [next |-> FALSE, user |-> NoUser,
          res |-> Json(401, FALSE, "Access token required", NoToken, NoUser)]
    ELSE IF err # "none"
    THEN [next |-> FALSE, user |-> NoUser, res |-> Forbidden(err)]
    ELSE [next |-> TRUE, user |-> Payload(token), res |-> NoRes]

----------------------------------------------------------------------------
(* POST /api/auth/login *)

\* a plausible slip: the row is sent as selected
UserDataWithHash(row) ==
    [kind |-> "user", id |-> row.id, user_id |-> row.user_id, email |-> row.email,
     name |-> row.name, password_hash |-> row.password_hash]

\* const { password_hash, ...userData } = user, over the columns the SELECT names
UserData(row) ==
    [kind |-> "user", id |-> row.id, user_id |-> row.user_id, email |-> row.email,
     name |-> row.name]

\* the ids the store may return as rows[0] (0: no row); the SELECT has no ORDER BY
FirstRows(table, ident) ==
    IF Matches(table, ident) = {} THEN {0} ELSE Matches(table, ident)

\* a plausible slip: only the email is checked
MissingEmailOnly(body) == Falsy(body.email)

\* !email || !password
MissingCredentials(body) == Falsy(body.email) \/ Falsy(body.password)

\* what the client gets when an exception leaves the handler: no answer
Unhandled(err) ==
    [kind |-> "unhandled", status |-> 0, success |-> FALSE, message |-> err,
     token |-> NoToken, user |-> NoUser]

\* a plausible slip: the catch logs and rethrows
LoginRethrow(err) == Unhandled(err)

\* catch (error) { res.status(500).json(...) } of the login handler
LoginCatch(err) == Json(500, FALSE, "Server error during login", NoToken, NoUser)

LoginHandler(body, first, qThrows, table, poolOk, secret, t) ==
    IF MissingCredentials(body)
    THEN [res |-> Json(400, FALSE, "Email and password are required", NoToken, NoUser),
          eff |-> Eff(TRUE, 0, "none")]
    ELSE IF ~poolOk
    THEN [res |-> Json(500, FALSE, "Database connection not available", NoToken, NoUser),
          eff |-> Eff(TRUE, 0, "none")]
    ELSE IF qThrows
    THEN [res |-> LoginCatch("store"), eff |-> Eff(TRUE, 1, "store")]
    ELSE IF first = 0
    THEN [res |-> Json(401, FALSE, "Invalid credentials", NoToken, NoUser),
          eff |-> Eff(TRUE, 1, "none")]
    ELSE LET user == table[first] IN
         IF BcryptThrows(body.password)
         THEN [res |-> LoginCatch("bcrypt"), eff |-> Eff(TRUE, 1, "bcrypt")]
         ELSE IF ~BcryptCompare(body.password, user.password_hash)
         THEN [res |-> Json(401, FALSE, "Invalid credentials", NoToken, NoUser),
               eff |-> Eff(TRUE, 1, "none")]
         ELSE [res |-> Json(200, TRUE, "Login successful",
                            JwtSign([userId |-> user.id, user_id |-> user.user_id,
                                     email |-> user.email], SignKey(secret), t),
                            UserData(user)),
               eff |-> Eff(TRUE, 1, "none")]

----------------------------------------------------------------------------
(* PUT /api/auth/update-profile, after authenticateToken *)

\* !name
NameFalsy(name) ==
    \/ name.type = "undefined"
    \/ name.type = "string" /\ name.chars = <<>>

\* RETURNING id, name, email, created_at
Returning(row) ==
    [kind |-> "user", id |-> row.id, name |-> row.name, email |-> row.email,
     created_at |-> row.created_at]

\* a plausible slip: the WHERE clause is missing
UpdateAllRows(table, name, userId) ==
    [i \in DOMAIN table |-> [table[i] EXCEPT !.name = name]]

\* UPDATE users SET name = $1 WHERE id = $2
Update(table, name, userId) ==
    [i \in DOMAIN table |-> IF i = userId THEN [table[i] EXCEPT !.name = name] ELSE table[i]]

\* a plausible slip: the row key is taken from the body when it carries one
TargetIdFromBody(user, body) == IF body.userId # 0 THEN body.userId ELSE user.userId

\* const userId = req.user.userId
TargetId(user, body) == user.userId

\* a plausible slip: the row count of the result is not looked at
RowCountIgnored(table, userId) == 1

\* result.rowCount
RowCount(table, userId) == Cardinality({i \in DOMAIN table : i = userId})

\* result.rows[0]
FirstReturned(table, userId) ==
    IF userId \in DOMAIN table THEN Returning(table[userId]) ELSE NoUser

\* catch (error) { res.status(500).json(...) } of the update handler
UpdateCatch(err) == Json(500, FALSE, "Error updating profile", NoToken, NoUser)

UpdateHandler(user, body, qThrows, table, poolOk) ==
    LET name == body.name
        userId == TargetId(user, body)
    IN
    IF NameFalsy(name)
    THEN [res |-> Json(400, FALSE, "Name is required", NoToken, NoUser),
          eff |-> Eff(TRUE, 0, "none"), users |-> table]
    ELSE IF name.type # "string"
    THEN \* name.trim is not a function: caught by the handler's catch
         [res |-> UpdateCatch("type"), eff |-> Eff(TRUE, 0, "type"), users |-> table]
    ELSE IF Len(Trim(name.chars)) = 0
    THEN [res |-> Json(400, FALSE, "Name is required", NoToken, NoUser),
          eff |-> Eff(TRUE, 0, "none"), users |-> table]
    ELSE IF userId = 0
    THEN [res |-> Json(400, FALSE, "User ID is required", NoToken, NoUser),
          eff |-> Eff(TRUE, 0, "none"), users |-> table]
    ELSE IF ~poolOk
    THEN [res |-> Json(500, FALSE, "Database connection not available", NoToken, NoUser),
          eff |-> Eff(TRUE, 0, "none"), users |-> table]
    ELSE IF qThrows
    THEN [res |-> UpdateCatch("store"), eff |-> Eff(TRUE, 1, "store"), users |-> table]
    ELSE LET updated == Update(table, Trim(name.chars), userId) IN
         IF RowCount(table, userId) = 0
         THEN [res |-> Json(404, FALSE, "User not found with ID", NoToken, NoUser),
               eff |-> Eff(TRUE, 1, "none"), users |-> updated]
         ELSE [res |-> Json(200, TRUE, "Profile updated successfully", NoToken,
                            FirstReturned(updated, userId)),
               eff |-> Eff(TRUE, 1, "none"), users |-> updated]

----------------------------------------------------------------------------
(* GET /api/health and GET /api/auth/health: the two handlers are the same code *)

HealthJson(status, database) ==
    [kind |-> "json", status |-> status, success |-> TRUE, message |-> "online",
     token |-> NoToken, user |-> NoUser, database |-> database]

\* a plausible slip: the catch answers 500
HealthHandlerFailing(poolOk, qThrows) ==
    IF ~poolOk
    THEN [res |-> HealthJson(200, "unknown"), eff |-> Eff(TRUE, 0, "none")]
    ELSE IF qThrows
    THEN [res |-> HealthJson(500, "disconnected"), eff |-> Eff(TRUE, 1, "store")]
    ELSE [res |-> HealthJson(200, "connected"), eff |-> Eff(TRUE, 1, "none")]

HealthHandler(poolOk, qThrows) ==
    IF ~poolOk
    THEN [res |-> HealthJson(200, "unknown"), eff |-> Eff(TRUE, 0, "none")]
    ELSE IF qThrows
    THEN [res |-> HealthJson(200, "disconnected"), eff |-> Eff(TRUE, 1, "store")]
    ELSE [res |-> HealthJson(200, "connected"), eff |-> Eff(TRUE, 1, "none")]

----------------------------------------------------------------------------
(* GET /api/auth/debug-token, after authenticateToken *)

DebugHandler(user) == Json(200, TRUE, "Token is valid", NoToken, user)

----------------------------------------------------------------------------
(* The route table, in registration order *)

HealthPath == <<"api", "health">>
AuthHealthPath == <<"api", "auth", "health">>
LoginPath == <<"api", "auth", "login">>
UpdatePath == <<"api", "auth", "update-profile">>
ProfilePath == <<"api", "auth", "profile">>
DebugPath == <<"api", "auth", "debug-token">>

\* the files res.sendFile names under templates/
TemplateFiles == {<<"login">>, <<"dashboard">>, <<"index">>}

Routes ==
    << [method |-> "GET", pattern |-> "exact", path |-> <<"login">>, handler |-> "loginPage"],
       [method |-> "GET", pattern |-> "exact", path |-> <<"dashboard">>, handler |-> "dashboardPage"],
       [method |-> "GET", pattern |-> "exact", path |-> <<>>, handler |-> "indexPage"],
       [method |-> "GET", pattern |-> "exact", path |-> HealthPath, handler |-> "health"],
       [method |-> "GET", pattern |-> "exact", path |-> AuthHealthPath, handler |-> "authHealth"],
       [method |-> "POST", pattern |-> "exact", path |-> LoginPath, handler |-> "login"],
       [method |-> "PUT", pattern |-> "exact", path |-> UpdatePath, handler |-> "updateProfile"],
       [method |-> "GET", pattern |-> "file", path |-> <<>>, handler |-> "static"],
       [method |-> "ANY", pattern |-> "prefix", path |-> <<"api">>, handler |-> "apiNotFound"],
       [method |-> "GET", pattern |-> "any", path |-> <<>>, handler |-> "spaIndex"],
       [method |-> "GET", pattern |-> "exact", path |-> DebugPath, handler |-> "debugToken"] >>

\* does route r take a request for `path` with `method`
RouteMatches(r, method, path) ==
    /\ r.method \in {method, "ANY"}
    /\ CASE r.pattern = "exact" -> path = r.path
         [] r.pattern = "file" -> path \in TemplateFiles
         [] r.pattern = "prefix" ->
                Len(path) > Len(r.path) /\ SubSeq(path, 1, Len(r.path)) = r.path
         [] r.pattern = "any" -> TRUE

\* the handler express runs: the first registered route that matches
Dispatch(method, path) ==
    LET hits == {k \in 1..Len(Routes) : RouteMatches(Routes[k], method, path)} IN
    IF hits = {} THEN "none"
    ELSE Routes[CHOOSE k \in hits : \A j \in hits : k <= j].handler

\* the handlers that read no state
ApiNotFound == Json(404, FALSE, "API endpoint not found", NoToken, NoUser)

----------------------------------------------------------------------------
(* Requests the clients send *)

LoginIds == {Undefined, "", "a@x", "b@x", "ua", "zz"}
Passwords == {Undefined, "", "p1", "p2", Num5}

Names ==
    {NameUndefined, NameNumber, Str(<<>>), Str(<<" ">>), Str(<<" ", "b">>)}

\* the userId a client puts in the body of an update, next to name
BodyUserIds == {2}

\* tokens no login of this process minted
Forged(u, key) ==
    [kind |-> "jwt", userId |-> u, user_id |-> "ux", email |-> "x@x", iat |-> 0,
     exp |-> SevenDays, key |-> key]

ForgedTokens ==
    {Malformed, Forged(1, "your-secret-key"), Forged(3, "your-secret-key"),
     Forged(0, "your-secret-key"), Forged(1, "attacker-key")}

Headers(tokens) ==
    {NoHeader, Header(<<Bearer>>), Header(<<Bearer, EmptyPart, Forged(1, "your-secret-key")>>)}
        \cup {Header(<<Bearer, t>>) : t \in tokens \cup ForgedTokens}

----------------------------------------------------------------------------
(* A request served step by step: each await is a point where others may run *)

Idle ==
    [pc |-> "idle", kind |-> "none", header |-> NoHeader, body |-> [none |-> TRUE],
     user |-> NoUser, out |-> NoRes, sent |-> 0, ran |-> FALSE]

\* a plausible slip: a `return` is missing and next() is reached after the answer
AfterGuardFallthrough(guard) == "handler"

\* authenticateToken either answers and returns, or calls next()
AfterGuard(guard) == IF guard.next THEN "handler" ELSE "done"

\* the synchronous part of the update handler, up to its await of pool.query
UpdateStart(slot, table, poolOk) ==
    IF slot.user.kind # "claims"
    THEN \* req.user.userId of an undefined req.user: a TypeError, caught
         [slot EXCEPT !.pc = "done", !.ran = TRUE, !.out = UpdateCatch("type"),
                      !.sent = @ + 1]
    ELSE LET sync == UpdateHandler(slot.user, slot.body, FALSE, table, poolOk) IN
         IF sync.eff.queries = 0
         THEN [slot EXCEPT !.pc = "done", !.ran = TRUE, !.out = sync.res, !.sent = @ + 1]
         ELSE [slot EXCEPT !.pc = "query", !.ran = TRUE]

\* the synchronous part of the login handler, up to its await of pool.query
LoginStart(slot, table, poolOk, secret, t) ==
    LET sync == LoginHandler(slot.body, 0, FALSE, table, poolOk, secret, t) IN
    IF sync.eff.queries = 0
    THEN [slot EXCEPT !.pc = "done", !.ran = TRUE, !.out = sync.res, !.sent = @ + 1]
    ELSE [slot EXCEPT !.pc = "query", !.ran = TRUE]

\* the synchronous part of a health handler, up to its await of pool.query
HealthStart(slot, poolOk) ==
    IF ~poolOk
    THEN [slot EXCEPT !.pc = "done", !.ran = TRUE, !.out = HealthHandler(poolOk, FALSE).res,
                      !.sent = @ + 1]
    ELSE [slot EXCEPT !.pc = "query", !.ran = TRUE]

----------------------------------------------------------------------------
(* The state machine *)

Init ==
    /\ JWT_SECRET \in {Undefined, "k1"}
    /\ pool \in BOOLEAN
    /\ users = InitialUsers
    /\ now = 0
    /\ ticks = 0
    /\ held = {}
    /\ req = NoReq
    /\ res = NoRes
    /\ eff = NoEff
    /\ inflight = [r \in Slots |-> Idle]
    /\ lastWriter = [i \in DOMAIN InitialUsers |-> 0]

\* POST /api/auth/login; the client may keep the token of a 200 answer
PostLogin ==
    \E email \in LoginIds, password \in Passwords :
        LET body == [email |-> email, password |-> password]
            outs == {LoginHandler(body, first, qThrows, users, pool, JWT_SECRET, now) :
                        first \in FirstRows(users, email), qThrows \in BOOLEAN}
        IN
        \E out \in outs :
            /\ Dispatch("POST", LoginPath) = "login"
            /\ held' \in {held} \cup
                   {held \cup {out.res.token} :
                       keep \in {k \in {TRUE} : /\ out.res.token.kind = "jwt"
                                               /\ Cardinality(held) < MaxHeld}}
            /\ req' = [route |-> "login", body |-> body]
            /\ res' = out.res
            /\ eff' = out.eff
            /\ UNCHANGED <<JWT_SECRET, pool, users, now, ticks, inflight, lastWriter>>

\* PUT /api/auth/update-profile: authenticateToken, then the handler
PutUpdateProfile ==
    \E header \in Headers(held), name \in Names, bodyUserId \in BodyUserIds :
        LET body == [name |-> name, userId |-> bodyUserId]
            guard == AuthenticateToken(header, JWT_SECRET, now)
            outs == IF guard.next
                    THEN {UpdateHandler(guard.user, body, qThrows, users, pool) :
                             qThrows \in BOOLEAN}
                    ELSE {[res |-> guard.res, eff |-> Eff(FALSE, 0, "none"),
                           users |-> users]}
        IN
        \E out \in outs :
            /\ Dispatch("PUT", UpdatePath) = "updateProfile"
            /\ req' = [route |-> "update", header |-> header, body |-> body,
                       user |-> guard.user]
            /\ res' = out.res
            /\ eff' = out.eff
            /\ users' = out.users
            /\ UNCHANGED <<JWT_SECRET, pool, now, ticks, held, inflight, lastWriter>>

\* GET /api/auth/profile?id=: no route is registered for it
GetProfile ==
    \E id \in {1, 2, 3} :
        /\ Dispatch("GET", ProfilePath) = "apiNotFound"
        /\ req' = [route |-> "profile", id |-> id]
        /\ res' = ApiNotFound
        /\ eff' = Eff(TRUE, 0, "none")
        /\ UNCHANGED <<JWT_SECRET, pool, users, now, ticks, held, inflight, lastWriter>>

\* GET /api/health and GET /api/auth/health
GetHealth ==
    \E path \in {HealthPath, AuthHealthPath} :
        \E out \in {HealthHandler(pool, qThrows) : qThrows \in BOOLEAN} :
            /\ Dispatch("GET", path) \in {"health", "authHealth"}
            /\ req' = [route |-> "health", path |-> path]
            /\ res' = out.res
            /\ eff' = out.eff
            /\ UNCHANGED <<JWT_SECRET, pool, users, now, ticks, held, inflight, lastWriter>>

\* GET /api/auth/debug-token: served by whichever registered route matches first
GetDebugToken ==
    \E header \in Headers(held) :
        LET handler == Dispatch("GET", DebugPath)
            guard == AuthenticateToken(header, JWT_SECRET, now)
        IN
        /\ handler \in {"debugToken", "apiNotFound"}
        /\ req' = [route |-> "debug", header |-> header]
        /\ res' = IF handler = "apiNotFound" THEN ApiNotFound
                  ELSE IF guard.next THEN DebugHandler(guard.user)
                  ELSE guard.res
        /\ eff' = Eff(handler = "apiNotFound" \/ guard.next, 0, "none")
        /\ UNCHANGED <<JWT_SECRET, pool, users, now, ticks, held, inflight, lastWriter>>

\* time passes between requests
Tick ==
    \E d \in {1, SevenDays} :
        /\ ticks < MaxTicks
        /\ now' = now + d
        /\ ticks' = ticks + 1
        /\ req' = NoReq
        /\ res' = NoRes
        /\ eff' = NoEff
        /\ UNCHANGED <<JWT_SECRET, pool, users, held, inflight, lastWriter>>

Next ==
    PostLogin \/ PutUpdateProfile \/ GetProfile \/ GetHealth \/ GetDebugToken \/ Tick

Spec == Init /\ [][Next]_vars

----------------------------------------------------------------------------
(* The same handlers with their awaits as interleaving points *)

\* the token a login at time 0 mints for row i
TokenOf(i) ==
    JwtSign([userId |-> InitialUsers[i].id, user_id |-> InitialUsers[i].user_id,
             email |-> InitialUsers[i].email], SignKey(JWT_SECRET), 0)

ConcHeaders == {NoHeader} \cup {Header(<<Bearer, t>>) : t \in held}
ConcNames == {Str(<<" ", "b">>), Str(<<"c">>), Str(<<" ">>)}
ConcLogins ==
    {[email |-> "ua", password |-> "p1"], [email |-> "a@x", password |-> "p2"],
     [email |-> "zz", password |-> "p1"], [email |-> "", password |-> "p1"]}

\* the clients hold the tokens of earlier logins of both rows
InitConc ==
    /\ JWT_SECRET \in {Undefined, "k1"}
    /\ pool \in BOOLEAN
    /\ users = InitialUsers
    /\ now = 0
    /\ ticks = 0
    /\ held = {TokenOf(i) : i \in DOMAIN InitialUsers}
    /\ req = NoReq
    /\ res = NoRes
    /\ eff = NoEff
    /\ inflight = [r \in Slots |-> Idle]
    /\ lastWriter = [i \in DOMAIN InitialUsers |-> 0]

\* PUT /api/auth/update-profile arrives: the guard, then the handler up to its await
ArriveUpdate(r) ==
    /\ inflight[r].pc = "idle"
    /\ Dispatch("PUT", UpdatePath) = "updateProfile"
    /\ \E header \in ConcHeaders, name \in ConcNames, bodyUserId \in BodyUserIds :
          LET guard == AuthenticateToken(header, JWT_SECRET, now)
              slot == [Idle EXCEPT !.kind = "update", !.header = header,
                                   !.body = [name |-> name, userId |-> bodyUserId],
                                   !.user = guard.user, !.out = guard.res,
                                   !.sent = IF guard.next THEN 0 ELSE 1]
          IN
          inflight' = [inflight EXCEPT ![r] =
                          IF AfterGuard(guard) = "done"
                          THEN [slot EXCEPT !.pc = "done"]
                          ELSE UpdateStart(slot, users, pool)]
    /\ UNCHANGED <<JWT_SECRET, pool, users, now, ticks, held, req, res, eff, lastWriter>>

\* POST /api/auth/login arrives
ArriveLogin(r) ==
    /\ inflight[r].pc = "idle"
    /\ Dispatch("POST", LoginPath) = "login"
    /\ \E body \in ConcLogins :
          inflight' = [inflight EXCEPT ![r] =
                          LoginStart([Idle EXCEPT !.kind = "login", !.body = body],
                                     users, pool, JWT_SECRET, now)]
    /\ UNCHANGED <<JWT_SECRET, pool, users, now, ticks, held, req, res, eff, lastWriter>>

\* GET /api/health or GET /api/auth/health arrives
ArriveHealth(r) ==
    /\ inflight[r].pc = "idle"
    /\ \E path \in {HealthPath, AuthHealthPath} :
          /\ Dispatch("GET", path) \in {"health", "authHealth"}
          /\ inflight' = [inflight EXCEPT ![r] =
                              HealthStart([Idle EXCEPT !.kind = "health"], pool)]
    /\ UNCHANGED <<JWT_SECRET, pool, users, now, ticks, held, req, res, eff, lastWriter>>

\* the awaited pool.query of request r returns or throws
StoreAnswers(r) ==
    /\ inflight[r].pc = "query"
    /\ \E qThrows \in BOOLEAN :
          LET slot == inflight[r] IN
          CASE slot.kind = "update" ->
                  LET out == UpdateHandler(slot.user, slot.body, qThrows, users, pool) IN
                  /\ users' = out.users
                  /\ inflight' = [inflight EXCEPT ![r] =
                                      [slot EXCEPT !.pc = "done", !.out = out.res,
                                                   !.sent = @ + 1]]
                  /\ lastWriter' =
                        IF out.res.status = 200
                        THEN [lastWriter EXCEPT ![ExtractToken(slot.header).userId] = r]
                        ELSE lastWriter
            [] slot.kind = "login" ->
                  \E first \in FirstRows(users, slot.body.email) :
                      LET out == LoginHandler(slot.body, first, qThrows, users, pool,
                                              JWT_SECRET, now)
                      IN
                      /\ inflight' = [inflight EXCEPT ![r] =
                                          IF qThrows \/ first = 0
                                          THEN [slot EXCEPT !.pc = "done", !.out = out.res,
                                                            !.sent = @ + 1]
                                          ELSE [slot EXCEPT !.pc = "bcrypt", !.out = out.res]]
                      /\ UNCHANGED <<users, lastWriter>>
            [] slot.kind = "health" ->
                  /\ inflight' = [inflight EXCEPT ![r] =
                                      [slot EXCEPT !.pc = "done",
                                                   !.out = HealthHandler(pool, qThrows).res,
                                                   !.sent = @ + 1]]
                  /\ UNCHANGED <<users, lastWriter>>
    /\ UNCHANGED <<JWT_SECRET, pool, now, ticks, held, req, res, eff>>

\* the awaited bcrypt.compare of login r returns or throws; the answer follows
HashAnswers(r) ==
    /\ inflight[r].pc = "bcrypt"
    /\ inflight' = [inflight EXCEPT ![r] = [@ EXCEPT !.pc = "done", !.sent = @ + 1]]
    /\ UNCHANGED <<JWT_SECRET, pool, users, now, ticks, held, req, res, eff, lastWriter>>

NextConc ==
    \E r \in Slots :
        \/ ArriveUpdate(r)
        \/ ArriveLogin(r)
        \/ ArriveHealth(r)
        \/ StoreAnswers(r)
        \/ HashAnswers(r)

\* every store call and every hashing call returns or throws in the end
SpecConc ==
    /\ InitConc
    /\ [][NextConc]_vars
    /\ \A r \in Slots : WF_vars(StoreAnswers(r)) /\ WF_vars(HashAnswers(r))

----------------------------------------------------------------------------
(* Properties *)

\* the token a request for update-profile presents
Presented == ExtractToken(req.header)

\* the tokens minted so far that a client can still present
Minted ==
    held \cup (IF req.route = "login" /\ res.token.kind = "jwt" THEN {res.token} ELSE {})

\* C1: every token minted by a successful login passes authenticateToken at any
\* time before its expiry, and req.user is then the userId, user_id and email that
\* were signed, whether JWT_SECRET is set or not.
C1_TokenRoundTrip ==
    \A tok \in Minted :
        now < tok.exp =>
            LET guard == AuthenticateToken(Header(<<Bearer, tok>>), JWT_SECRET, now) IN
            /\ guard.next
            /\ guard.user.userId = tok.userId
            /\ guard.user.user_id = tok.user_id
            /\ guard.user.email = tok.email

\* C2: the store changes, and the UPDATE is issued, only in an update-profile
\* request whose token verifies under the validator's key before its expiry; the
\* only row that changes is the one whose id is the token's userId claim, whatever
\* userId the body carries.
C2_UpdateAuthorised ==
    [][ (users' # users \/ (req'.route = "update" /\ eff'.queries > 0)) =>
            /\ req'.route = "update"
            /\ LET tok == ExtractToken(req'.header) IN
               /\ tok.kind = "jwt"
               /\ tok.key = VerifyKey(JWT_SECRET)
               /\ now < tok.exp
               /\ \A i \in DOMAIN users : users'[i] # users[i] => i = tok.userId
      ]_vars

C2_Witness ==
    /\ req.route = "update"
    /\ res.status = 200
    /\ req.body.userId = 2
    /\ Presented.userId = 1
    /\ users[1].name = <<"b">>
    /\ users[2].name = <<"a">>

\* C3: a login is answered 200 exactly when it carries a token; then some row
\* matched the identifier by email or user_id, the password matched that row's
\* hash, and the token's claims are that row's id, user_id and email. Every other
\* answer is 400, 401 or 500 and carries no token.
C3_TokenOnlyAfterVerification ==
    req.route = "login" =>
        /\ res.status \in {200, 400, 401, 500}
        /\ (res.token.kind = "jwt") <=> (res.status = 200)
        /\ res.status = 200 =>
              \E i \in Matches(users, req.body.email) :
                  /\ users[i].password_hash = Hash(req.body.password)
                  /\ res.token.userId = users[i].id
                  /\ res.token.user_id = users[i].user_id
                  /\ res.token.email = users[i].email

C3_Witness ==
    /\ req.route = "login"
    /\ res.status = 200
    /\ res.token.userId = 2
    /\ req.body.email = "a@x"

\* C4: a token issued at time T carries the expiry T + 7 days, and at every time
\* strictly after that expiry authenticateToken answers 403 and the handler is
\* not run, whatever requests were served in between.
C4_Expiry ==
    /\ \A tok \in Minted :
          /\ tok.exp = tok.iat + SevenDays
          /\ now > tok.exp =>
                LET guard == AuthenticateToken(Header(<<Bearer, tok>>), JWT_SECRET, now) IN
                ~guard.next /\ guard.res.status = 403
    /\ (req.route = "login" /\ res.status = 200) => res.token.iat = now
    /\ (req.route = "update" /\ Presented \in held /\ now > Presented.exp) =>
          res.status = 403 /\ ~eff.handlerRan

C4_Witness ==
    /\ req.route = "update"
    /\ Presented \in held
    /\ Presented.key = VerifyKey(JWT_SECRET)
    /\ now = Presented.exp + 1
    /\ res.status = 403

\* C5: a request whose token was signed with a key other than the validator's key
\* is answered 403 and the protected handler is not run.
C5_WrongKeyRejected ==
    (req.route = "update" /\ Presented.kind = "jwt"
        /\ Presented.key # VerifyKey(JWT_SECRET)) =>
            res.status = 403 /\ ~eff.handlerRan /\ eff.queries = 0

C5_Witness ==
    /\ req.route = "update"
    /\ Presented.kind = "jwt"
    /\ Presented.key = "attacker-key"
    /\ now < Presented.exp
    /\ res.status = 403

InvalidCredentials == Json(401, FALSE, "Invalid credentials", NoToken, NoUser)

\* C6: with the store answering, a login with an identifier of one stored identity
\* and its correct secret is answered 200, and a login with a wrong secret is
\* answered exactly as a login with an identifier that matches no row is: 401
\* with the one message.
C6_LoginIndistinguishable ==
    (req.route = "login" /\ pool /\ eff.threw # "store"
        /\ ~Falsy(req.body.email) /\ ~Falsy(req.body.password)) =>
        LET rows == Matches(users, req.body.email)
            right == {i \in rows : users[i].password_hash = Hash(req.body.password)}
        IN
        /\ (Cardinality(rows) = 1 /\ right = rows) => res.status = 200
        /\ right = {} => res = InvalidCredentials

\* C7: a protected request without a token is answered 401 'Access token
\* required'; one whose token fails verification (malformed, wrong signature,
\* expired) is answered 403 with one and the same body; the handler runs in
\* neither case.
C7_GuardOutcomes ==
    req.route = "update" =>
        /\ (~req.header.present \/ Len(req.header.parts) < 2) =>
              /\ res = Json(401, FALSE, "Access token required", NoToken, NoUser)
              /\ ~eff.handlerRan
        /\ (/\ Presented.kind \in {"jwt", "malformed", "word"}
            /\ \/ Presented.kind # "jwt"
               \/ Presented.key # VerifyKey(JWT_SECRET)
               \/ now >= Presented.exp) =>
              /\ res = Json(403, FALSE, "Invalid or expired token", NoToken, NoUser)
              /\ ~eff.handlerRan

C7_Witness ==
    /\ req.route = "update"
    /\ Presented \in held
    /\ Presented.key = VerifyKey(JWT_SECRET)
    /\ now = Presented.exp
    /\ res.status = 403
    /\ res.message = "Invalid or expired token"

\* a name that is the empty string or only spaces
Blank(name) ==
    name.type = "string" /\ \A k \in 1..Len(name.chars) : name.chars[k] = " "

\* the request carries a token that verifies now
ValidToken(r) ==
    LET tok == ExtractToken(r.header) IN
    tok.kind = "jwt" /\ tok.key = VerifyKey(JWT_SECRET) /\ now < tok.exp

\* C8: an update with a valid token whose name is empty or whitespace-only is
\* answered 400, issues no store query and leaves every row as it was.
C8_BlankNameRejected ==
    [][ (req'.route = "update" /\ ValidToken(req') /\ Blank(req'.body.name)) =>
            res'.status = 400 /\ eff'.queries = 0 /\ users' = users
      ]_vars

C8_Witness ==
    /\ req.route = "update"
    /\ ValidToken(req)
    /\ req.body.name = Str(<<" ">>)
    /\ res.status = 400
    /\ res.message = "Name is required"

\* C9: once an update has stored name X for id N, GET profile with id=N is
\* answered 200 with a projection of row N whose name is X, without the password
\* hash; a read for an id of no row is answered 404.
C9_ReadAfterUpdate ==
    req.route = "profile" =>
        IF req.id \in DOMAIN users
        THEN users[req.id].name # InitialUsers[req.id].name =>
                /\ res.status = 200
                /\ res.user.kind = "user"
                /\ res.user.id = req.id
                /\ res.user.name = users[req.id].name
                /\ "password_hash" \notin DOMAIN res.user
        ELSE res.status = 404

\* C10: a login whose email or password is missing or empty is answered 400
\* 'Email and password are required' without any store query, also when the pool
\* is absent.
C10_MissingCredentialsFirst ==
    (req.route = "login"
        /\ (req.body.email \in {Undefined, ""} \/ req.body.password \in {Undefined, ""})) =>
            /\ res = Json(400, FALSE, "Email and password are required", NoToken, NoUser)
            /\ eff.queries = 0

C10_Witness ==
    /\ req.route = "login"
    /\ ~pool
    /\ req.body.email = "ua"
    /\ req.body.password = ""
    /\ res.status = 400

\* C11: whether a presented token passes the guard depends on the token, the key
\* and the clock alone: in every reachable state, whatever was served before, an
\* update's handler runs exactly when its token is a JWT signed with the
\* validator's key and not yet expired. Nothing revokes a token.
C11_Stateless ==
    req.route = "update" =>
        (eff.handlerRan <=>
            /\ Presented.kind = "jwt"
            /\ Presented.key = VerifyKey(JWT_SECRET)
            /\ now < Presented.exp)

\* a kept token passes at a later time, its own row having changed
C11_Witness ==
    /\ req.route = "update"
    /\ Presented \in held
    /\ now > Presented.iat
    /\ users[Presented.userId].name # InitialUsers[Presented.userId].name
    /\ eff.handlerRan
    /\ res.status = 200

C14_HealthAlways200 ==
    req.route = "health" =>
        /\ res.status = 200
        /\ res.database = "connected" =>
              pool /\ eff.queries = 1 /\ eff.threw = "none"
        /\ ~pool => res.database = "unknown"
        /\ eff.threw = "store" => res.database = "disconnected"

C14_Witness ==
    /\ req.route = "health"
    /\ req.path = AuthHealthPath
    /\ eff.threw = "store"
    /\ res.status = 200
    /\ res.database = "disconnected"

\* the name of the request is a string with a character other than a space
GoodName(name) == name.type = "string" /\ ~Blank(name)

\* C15: an update with a valid token and a valid name whose UPDATE ran and matched
\* no row is answered 404 and leaves the store as it was.
C15_NoRowNotFound ==
    [][ (/\ req'.route = "update"
         /\ ValidToken(req')
         /\ GoodName(req'.body.name)
         /\ eff'.queries = 1
         /\ eff'.threw = "none"
         /\ ExtractToken(req'.header).userId \notin DOMAIN users) =>
            res'.status = 404 /\ users' = users
      ]_vars

C15_Witness ==
    /\ req.route = "update"
    /\ ValidToken(req)
    /\ Presented.userId = 3
    /\ eff.queries = 1
    /\ res.status = 404

\* C16: with a valid token an update is answered 500 only when the pool is absent
\* or the query throws, and every invalid name (missing, empty, blank, or not a
\* string) is answered 400.
C16_InvalidNameIs400 ==
    (req.route = "update" /\ ValidToken(req)) =>
        /\ res.status = 500 => (~pool \/ eff.threw = "store")
        /\ ~GoodName(req.body.name) => res.status = 400

\* C17: GET /api/auth/debug-token with a valid token reaches its handler and is
\* answered success true, the decoded claims and 'Token is valid'.
C17_DebugTokenReachable ==
    (req.route = "debug" /\ ValidToken(req)) =>
        /\ res.status = 200
        /\ res.success
        /\ res.message = "Token is valid"
        /\ res.user = Payload(Presented)

TokenFields == {"kind", "userId", "user_id", "email", "iat", "exp", "key"}

\* C19: no answer and no token carries a password hash: the user projection of
\* an answer has no password_hash column and a token has only the signed claims.
C19_HashStaysInside ==
    /\ res.kind = "json" =>
          /\ "password_hash" \notin DOMAIN res.user
          /\ res.token.kind = "jwt" => DOMAIN res.token = TokenFields
          /\ "password_hash" \notin DOMAIN res
    /\ \A tok \in held : DOMAIN tok = TokenFields

C19_Witness ==
    /\ req.route = "login"
    /\ res.status = 200
    /\ res.user.kind = "user"
    /\ res.user.id = 1
    /\ users[1].password_hash = Hash("p1")

\* the row a step-wise update is for, and the name it sends, trimmed
SlotRow(r) == ExtractToken(inflight[r].header).userId
SlotName(r) == Trim(inflight[r].body.name.chars)

\* C12: under every interleaving of arrivals and store answers, a row no update
\* has written is as it was, a written row carries the trimmed name of the update
\* of that row's own token whose write ran last and is otherwise as it was, and
\* the answer of each update shows its own row and its own name.
C12_LastWriteWins ==
    /\ \A i \in DOMAIN users :
          IF lastWriter[i] = 0
          THEN users[i] = InitialUsers[i]
          ELSE /\ SlotRow(lastWriter[i]) = i
               /\ users[i] = [InitialUsers[i] EXCEPT !.name = SlotName(lastWriter[i])]
    /\ \A r \in Slots :
          (inflight[r].kind = "update" /\ inflight[r].pc = "done"
              /\ inflight[r].out.status = 200) =>
                /\ inflight[r].out.user.id = SlotRow(r)
                /\ inflight[r].out.user.name = SlotName(r)

\* two updates of row 1 with different names: the second slot's write ran last
\* while the first, already answered, wrote before it; row 2 is untouched
C12_Witness ==
    /\ inflight[1].kind = "update" /\ inflight[2].kind = "update"
    /\ inflight[1].pc = "done" /\ inflight[2].pc = "done"
    /\ inflight[1].out.status = 200 /\ inflight[2].out.status = 200
    /\ SlotRow(1) = 1 /\ SlotRow(2) = 1
    /\ SlotName(1) # SlotName(2)
    /\ lastWriter[1] = 2
    /\ users[1].name = SlotName(2)
    /\ users[2] = InitialUsers[2]

\* C18: a request is answered exactly once: never twice, once when it is done,
\* not yet while it awaits the store or bcrypt; the handler behind the guard runs
\* only for a token that verifies (the guard then sent nothing); and, the store
\* and bcrypt answering in the end, every request that arrived is answered.
C18_ExactlyOneResponse ==
    /\ [](\A r \in Slots :
            /\ inflight[r].sent <= 1
            /\ inflight[r].pc = "done" =>
                  inflight[r].sent = 1 /\ inflight[r].out.kind = "json"
            /\ inflight[r].pc \in {"query", "bcrypt"} => inflight[r].sent = 0
            /\ (inflight[r].kind = "update" /\ inflight[r].ran) => ValidToken(inflight[r]))
    /\ \A r \in Slots :
          (inflight[r].pc # "idle") ~> (inflight[r].pc = "done" /\ inflight[r].sent = 1)

C18_Witness ==
    /\ inflight[1].kind = "login"
    /\ inflight[1].pc = "done"
    /\ inflight[1].out.status = 200
    /\ inflight[1].sent = 1
    /\ inflight[2].kind = "update"
    /\ inflight[2].pc = "done"
    /\ ~inflight[2].ran
    /\ inflight[2].out.status = 403
    /\ inflight[2].sent = 1

====
